---- MODULE Spec2Model ----
(***************************************************************************)
(* Shift builder (shift_builder.py): Employee, Shift and ShiftBuilder.     *)
(*                                                                         *)
(* The builder's fields are the state; every public operation is one       *)
(* action.  assign_shifts is single-threaded, and several properties speak *)
(* about the moments inside its loop, so it is unfolded into its steps:    *)
(* AssignShiftsBegin (lines 117-133: counters, eligibility map, sort),     *)
(* AssignShiftsStep (one iteration of the loop, lines 135-152) and         *)
(* AssignShiftsReturn (the loop is exhausted).  No other operation runs    *)
(* between these steps.                                                    *)
(*                                                                         *)
(* An Employee object is referred to by its position in builder.employees  *)
(* (the list is append-only, so a position is a stable reference);         *)
(* NoEmployee stands for Python's None.  An availability list is kept as   *)
(* the set of its entries: add_availability never appends a duplicate and  *)
(* no modelled operation reads the order of the entries.                   *)
(***************************************************************************)
EXTENDS Integers, Sequences, FiniteSets

\* ------------------------------------------------------------------ bounds

\* Most employees registered with the builder.
MaxEmployees == 2

\* Most shifts one generate_shifts call may produce.
MaxShifts == 2

\* The labels the inputs are drawn from: Monday, one time slot, two
\* departments.
InputDays == {0}
InputTimeSlots == {"Morning"}
InputDepartments == {"Sales", "Inventory"}

\* --------------------------------------------------------------- constants

\* range(7): the days of the week.
NumDays == 7

\* The days the per-day counters are created for.
DayIndices == 0 .. (NumDays - 1)

\* None, as the employee of an unassigned shift.
NoEmployee == 0

\* Every list over S that can still yield at most MaxShifts shifts (entries may
\* repeat).
ListsOver(S) == UNION {[1 .. n -> S] : n \in 0 .. MaxShifts}

VARIABLES
    employees,                \* ShiftBuilder.employees: list of Employee
    shifts,                   \* ShiftBuilder.shifts: list of Shift
    departments,              \* ShiftBuilder.departments
    time_slots,               \* ShiftBuilder.time_slots
    pc,                       \* "idle", or "assign" while assign_shifts runs
    employee_shifts_per_day,  \* assign_shifts local: employee_id -> day -> count
    shift_eligible_map,       \* assign_shifts local: shift -> eligible employees
    sorted_shifts,            \* assign_shifts local: shifts in processing order
    next_pos,                 \* position of the loop in sorted_shifts
    unchanged_since_pass      \* history: nothing was called since the last pass returned

vars == <<employees, shifts, departments, time_slots, pc, employee_shifts_per_day,
          shift_eligible_map, sorted_shifts, next_pos, unchanged_since_pass>>

\* ---------------------------------------------------------------- Employee

\* Employee.__init__: no department, no availability.
NewEmployee(employee_id) ==
    [employee_id |-> employee_id, departments |-> {},
     availability |-> [d \in {} |-> {}]]

\* Employee.add_department
add_department(emp, department) ==
    [emp EXCEPT !.departments = @ \cup {department}]

\* Employee.add_availability: create the day's list if missing, append if new.
add_availability(emp, day, time_slot) ==
    LET old == emp.availability
        withDay == [d \in DOMAIN old \cup {day} |->
                       IF d \in DOMAIN old THEN old[d] ELSE {}]
    IN  [emp EXCEPT !.availability =
            [withDay EXCEPT ![day] = @ \cup {time_slot}]]

\* A faulty is_available: a day without recorded availability counts as free.
is_available_unless_recorded(emp, day, time_slot) ==
    day \notin DOMAIN emp.availability \/ time_slot \in emp.availability[day]

\* Employee.is_available
is_available(emp, day, time_slot) ==
    day \in DOMAIN emp.availability /\ time_slot \in emp.availability[day]

\* A faulty can_work_in_department: having any department at all is enough.
can_work_in_any_department(emp, department) ==
    emp.departments # {}

\* Employee.can_work_in_department
can_work_in_department(emp, department) ==
    department \in emp.departments

\* ------------------------------------------------------------------- Shift

\* Shift.__init__ with employee=None
NewShift(day, time_slot, department) ==
    [day |-> day, time_slot |-> time_slot, department |-> department,
     employee |-> NoEmployee]

\* A faulty is_assigned: the loop never skips a shift.
is_assigned_never(shift) == FALSE

\* Shift.is_assigned
is_assigned(shift) == shift.employee # NoEmployee

\* Shift.assign_employee: the shift after the call (the employee is set only
\* if it passes both checks; the caller ignores the returned flag).
assign_employee(shift, e) ==
    IF is_available(employees[e], shift.day, shift.time_slot)
       /\ can_work_in_department(employees[e], shift.department)
    THEN [shift EXCEPT !.employee = e]
    ELSE shift

\* ------------------------------------------------------------ ShiftBuilder

\* generate_shifts, line 111-113: one shift per entry of the department list.
RECURSIVE DepartmentLoop(_, _, _)
DepartmentLoop(day, time_slot, depts) ==
    IF depts = <<>> THEN <<>>
    ELSE <<NewShift(day, time_slot, Head(depts))>>
         \o DepartmentLoop(day, time_slot, Tail(depts))

\* generate_shifts, line 110: for every entry of self.time_slots.
RECURSIVE TimeSlotLoop(_, _, _)
TimeSlotLoop(day, slots, depts) ==
    IF slots = <<>> THEN <<>>
    ELSE DepartmentLoop(day, Head(slots), depts)
         \o TimeSlotLoop(day, Tail(slots), depts)

\* generate_shifts, line 109: for every entry of days.
RECURSIVE DayLoop(_, _, _)
DayLoop(days, slots, depts) ==
    IF days = <<>> THEN <<>>
    ELSE TimeSlotLoop(Head(days), slots, depts)
         \o DayLoop(Tail(days), slots, depts)

\* generate_shifts, lines 103-104: the days used when the caller passes none.
DefaultDays == [k \in 1 .. NumDays |-> k - 1]

\* assign_shifts, lines 118-120: a zero counter per employee id and day.
InitialCounters(emps) ==
    [id \in {emps[e].employee_id : e \in DOMAIN emps} |-> [day \in DayIndices |-> 0]]

\* assign_shifts, lines 125-129: the employees passing both checks, in the
\* order of self.employees.
RECURSIVE EligibleFrom(_, _, _)
EligibleFrom(emps, shift, e) ==
    IF e > Len(emps) THEN <<>>
    ELSE (IF is_available(emps[e], shift.day, shift.time_slot)
             /\ can_work_in_department(emps[e], shift.department)
          THEN <<e>> ELSE <<>>)
         \o EligibleFrom(emps, shift, e + 1)

\* assign_shifts, lines 123-130
EligibleMap(emps, shs) ==
    [s \in DOMAIN shs |-> EligibleFrom(emps, shs[s], 1)]

\* A faulty insertion: x goes in front of the entries with an equal key.
InsertBeforeEqualKey(sorted, x, key) ==
    LET before == SelectSeq(sorted, LAMBDA y : key[y] < key[x])
        after == SelectSeq(sorted, LAMBDA y : key[y] >= key[x])
    IN  before \o <<x>> \o after

\* sorted(): put x behind every entry whose key is not greater (stable).
RECURSIVE InsertByKey(_, _, _)
InsertByKey(sorted, x, key) ==
    IF sorted = <<>> THEN <<x>>
    ELSE IF key[x] < key[Head(sorted)] THEN <<x>> \o sorted
    ELSE <<Head(sorted)>> \o InsertByKey(Tail(sorted), x, key)

\* sorted(items, key=...): ascending by key, equal keys in their given order.
RECURSIVE SortedByKey(_, _)
SortedByKey(items, key) ==
    IF items = <<>> THEN <<>>
    ELSE InsertByKey(SortedByKey(SubSeq(items, 1, Len(items) - 1), key),
                     items[Len(items)], key)

\* assign_shifts, line 133: shift positions ordered by eligible count.
SortShifts(shs, eligible) ==
    SortedByKey([s \in 1 .. Len(shs) |-> s],
                [s \in 1 .. Len(shs) |-> Len(eligible[s])])

\* A faulty min: an entry with an equal key replaces the best so far.
RECURSIVE MinByKeyLast(_, _, _)
MinByKeyLast(best, rest, key) ==
    IF rest = <<>> THEN best
    ELSE MinByKeyLast(IF key[Head(rest)] <= key[best] THEN Head(rest) ELSE best,
                      Tail(rest), key)

\* min(items, key=...): the first entry with the smallest key; best is the
\* smallest seen so far, replaced only by a strictly smaller one.
RECURSIVE MinByKey(_, _, _)
MinByKey(best, rest, key) ==
    IF rest = <<>> THEN best
    ELSE MinByKey(IF key[Head(rest)] < key[best] THEN Head(rest) ELSE best,
                  Tail(rest), key)

\* assign_shifts, lines 146-149: the eligible employee with the fewest shifts
\* counted on the shift's day.
SelectEmployee(eligible, counters, day) ==
    LET key == [e \in DOMAIN employees |->
                   counters[employees[e].employee_id][day]]
    IN  MinByKey(Head(eligible), Tail(eligible), key)

\* A faulty increment: the assignment is counted on every day of the week.
IncrementCounterEveryDay(counters, employee_id, day) ==
    [counters EXCEPT ![employee_id] = [d \in DOMAIN @ |-> @[d] + 1]]

\* assign_shifts, line 152
IncrementCounter(counters, employee_id, day) ==
    [counters EXCEPT ![employee_id][day] = @ + 1]

\* ------------------------------------------------------------------ actions

Init ==
    /\ employees = <<>>
    /\ shifts = <<>>
    /\ departments = {}
    /\ time_slots = <<>>
    /\ pc = "idle"
    /\ employee_shifts_per_day = <<>>
    /\ shift_eligible_map = <<>>
    /\ sorted_shifts = <<>>
    /\ next_pos = 0
    /\ unchanged_since_pass = FALSE

\* load_employees_from_json, lines 224-232: a new Employee, then one
\* add_department per listed department and one add_availability per listed
\* day and time slot.
RECURSIVE LoadEmployee(_, _, _)
LoadEmployee(emp, depts, avail) ==
    IF depts # {}
    THEN LET d == CHOOSE x \in depts : TRUE
         IN  LoadEmployee(add_department(emp, d), depts \ {d}, avail)
    ELSE IF avail # {}
    THEN LET a == CHOOSE x \in avail : TRUE
         IN  LoadEmployee(add_availability(emp, a[1], a[2]), depts, avail \ {a})
    ELSE emp

\* Every employee with the given id a caller can hand to add_employee.
EmployeesWithId(employee_id) ==
    {LoadEmployee(NewEmployee(employee_id), depts, avail) :
        depts \in SUBSET InputDepartments,
        avail \in SUBSET (InputDays \X InputTimeSlots)}

\* Ids are given out in registration order (E001, E002, ... in the example),
\* so they are unique.
EmployeeRecords == EmployeesWithId(Len(employees) + 1)

\* The lists a caller passes to set_time_slots and generate_shifts; leaving
\* days out means DefaultDays.
TimeSlotLists == ListsOver(InputTimeSlots)
DepartmentLists == ListsOver(InputDepartments)
DayLists == ListsOver(InputDays) \cup {DefaultDays}

\* ShiftBuilder.add_employee
AddEmployee(emp) ==
    /\ pc = "idle"
    /\ Len(employees) < MaxEmployees
    /\ employees' = Append(employees, emp)
    /\ departments' = departments \cup emp.departments
    /\ unchanged_since_pass' = FALSE
    /\ UNCHANGED <<shifts, time_slots, pc, employee_shifts_per_day,
                   shift_eligible_map, sorted_shifts, next_pos>>

\* Employee.add_department on an employee the builder already holds.
AddDepartment(e, department) ==
    /\ pc = "idle"
    /\ e \in DOMAIN employees
    /\ employees' = [employees EXCEPT ![e] = add_department(@, department)]
    /\ unchanged_since_pass' = FALSE
    /\ UNCHANGED <<shifts, departments, time_slots, pc, employee_shifts_per_day,
                   shift_eligible_map, sorted_shifts, next_pos>>

\* Employee.add_availability on an employee the builder already holds.
AddAvailability(e, day, time_slot) ==
    /\ pc = "idle"
    /\ e \in DOMAIN employees
    /\ employees' = [employees EXCEPT ![e] = add_availability(@, day, time_slot)]
    /\ unchanged_since_pass' = FALSE
    /\ UNCHANGED <<shifts, departments, time_slots, pc, employee_shifts_per_day,
                   shift_eligible_map, sorted_shifts, next_pos>>

\* ShiftBuilder.set_time_slots
SetTimeSlots(slots) ==
    /\ pc = "idle"
    /\ time_slots' = slots
    /\ unchanged_since_pass' = FALSE
    /\ UNCHANGED <<employees, shifts, departments, pc, employee_shifts_per_day,
                   shift_eligible_map, sorted_shifts, next_pos>>

\* A faulty generate_shifts: the new shifts are added to the old ones.
GenerateShiftsAppending(depts, days) ==
    /\ pc = "idle"
    /\ Len(days) * Len(time_slots) * Len(depts) <= MaxShifts
    /\ departments' = departments \cup {depts[k] : k \in DOMAIN depts}
    /\ shifts' = shifts \o DayLoop(days, time_slots, depts)
    /\ unchanged_since_pass' = FALSE
    /\ UNCHANGED <<employees, time_slots, pc, employee_shifts_per_day,
                   shift_eligible_map, sorted_shifts, next_pos>>

\* ShiftBuilder.generate_shifts
GenerateShifts(depts, days) ==
    /\ pc = "idle"
    /\ Len(days) * Len(time_slots) * Len(depts) <= MaxShifts
    /\ departments' = departments \cup {depts[k] : k \in DOMAIN depts}
    /\ shifts' = DayLoop(days, time_slots, depts)
    /\ unchanged_since_pass' = FALSE
    /\ UNCHANGED <<employees, time_slots, pc, employee_shifts_per_day,
                   shift_eligible_map, sorted_shifts, next_pos>>

\* assign_shifts, lines 117-133: everything before the loop.
AssignShiftsBegin ==
    /\ pc = "idle"
    /\ pc' = "assign"
    /\ employee_shifts_per_day' = InitialCounters(employees)
    /\ shift_eligible_map' = EligibleMap(employees, shifts)
    /\ sorted_shifts' = SortShifts(shifts, EligibleMap(employees, shifts))
    /\ next_pos' = 1
    /\ UNCHANGED <<employees, shifts, departments, time_slots, unchanged_since_pass>>

\* assign_shifts, lines 135-152: one iteration of the loop.
AssignShiftsStep ==
    /\ pc = "assign"
    /\ next_pos <= Len(sorted_shifts)
    /\ LET s == sorted_shifts[next_pos]
           eligible_employees == shift_eligible_map[s]
       IN  IF is_assigned(shifts[s]) \/ eligible_employees = <<>>
           THEN UNCHANGED <<shifts, employee_shifts_per_day>>
           ELSE LET selected_employee ==
                        SelectEmployee(eligible_employees, employee_shifts_per_day,
                                       shifts[s].day)
                IN  /\ shifts' = [shifts EXCEPT
                                     ![s] = assign_employee(@, selected_employee)]
                    /\ employee_shifts_per_day' =
                           IncrementCounter(employee_shifts_per_day,
                                            employees[selected_employee].employee_id,
                                            shifts[s].day)
    /\ next_pos' = next_pos + 1
    /\ UNCHANGED <<employees, departments, time_slots, pc, shift_eligible_map,
                   sorted_shifts, unchanged_since_pass>>

\* assign_shifts returns: the loop is exhausted and the locals are gone.
AssignShiftsReturn ==
    /\ pc = "assign"
    /\ next_pos > Len(sorted_shifts)
    /\ pc' = "idle"
    /\ employee_shifts_per_day' = <<>>
    /\ shift_eligible_map' = <<>>
    /\ sorted_shifts' = <<>>
    /\ next_pos' = 0
    /\ unchanged_since_pass' = TRUE
    /\ UNCHANGED <<employees, shifts, departments, time_slots>>

Next ==
    \/ \E emp \in EmployeeRecords : AddEmployee(emp)
    \/ \E e \in 1 .. MaxEmployees, d \in InputDepartments : AddDepartment(e, d)
    \/ \E e \in 1 .. MaxEmployees, day \in InputDays, slot \in InputTimeSlots :
           AddAvailability(e, day, slot)
    \/ \E slots \in TimeSlotLists : SetTimeSlots(slots)
    \/ \E depts \in DepartmentLists, days \in DayLists : GenerateShifts(depts, days)
    \/ AssignShiftsBegin
    \/ AssignShiftsStep
    \/ AssignShiftsReturn

Spec == Init /\ [][Next]_vars

\* The shift generator on its own: a builder whose employees are loaded (none,
\* or one employee of any kind) before anything else is called, and on which
\* only set_time_slots, generate_shifts and assign_shifts are called after.
InitLoaded ==
    /\ employees \in {<<>>} \cup {<<emp>> : emp \in EmployeesWithId(1)}
    /\ departments = UNION {employees[e].departments : e \in DOMAIN employees}
    /\ shifts = <<>>
    /\ time_slots = <<>>
    /\ pc = "idle"
    /\ employee_shifts_per_day = <<>>
    /\ shift_eligible_map = <<>>
    /\ sorted_shifts = <<>>
    /\ next_pos = 0
    /\ unchanged_since_pass = FALSE

NextGenerate ==
    \/ \E slots \in TimeSlotLists : SetTimeSlots(slots)
    \/ \E depts \in DepartmentLists, days \in DayLists : GenerateShifts(depts, days)
    \/ AssignShiftsBegin
    \/ AssignShiftsStep
    \/ AssignShiftsReturn

SpecGenerate == InitLoaded /\ [][NextGenerate]_vars

\* -------------------------------------------------------------- properties

\* Vocabulary of the properties, written against the stored fields.
Meets(e, s) ==
    /\ e \in DOMAIN employees
    /\ shifts[s].day \in DOMAIN employees[e].availability
    /\ shifts[s].time_slot \in employees[e].availability[shifts[s].day]
    /\ shifts[s].department \in employees[e].departments

Fillable(s) == \E e \in DOMAIN employees : Meets(e, s)

Assigned(s) == shifts[s].employee # NoEmployee

\* The loop of assign_shifts is exhausted; the call is about to return.
Completed == pc = "assign" /\ next_pos > Len(sorted_shifts)

\* Some step of generate_shifts.
GenerateStep ==
    \E depts \in DepartmentLists, days \in DayLists : GenerateShifts(depts, days)

\* C1: at every moment, during a pass and after it, the employee of every
\* assigned shift is available at the shift's day and time slot and works in
\* the shift's department; a shift holds one such employee or none.
EligibilityCorrectness ==
    \A s \in DOMAIN shifts : Assigned(s) => Meets(shifts[s].employee, s)

\* C1 witness: inside a pass, one shift has been given an employee and another
\* shift, which no employee can take, has been left without one.
EligibilityWitness ==
    /\ pc = "assign"
    /\ next_pos > 1
    /\ \E s, u \in DOMAIN shifts : Assigned(s) /\ ~Assigned(u) /\ ~Fillable(u)

\* C2: assignment is write-once on a generated shift set.  No step other than
\* generate_shifts (which replaces the set) changes the number of shifts or
\* the employee of a shift that has one, within a pass or across passes; and
\* a pass started when nothing was called since the previous pass returned
\* leaves every shift as it was.
WriteOnceAssignment ==
    [][ /\ \/ /\ Len(shifts') = Len(shifts)
              /\ \A s \in DOMAIN shifts : Assigned(s) => shifts'[s] = shifts[s]
           \/ GenerateStep
        /\ (pc = "assign" /\ unchanged_since_pass) => shifts' = shifts
      ]_vars

\* C2 witness: a pass re-run directly after a pass has gone past an assigned
\* shift of the earlier pass.
WriteOnceWitness ==
    /\ pc = "assign"
    /\ unchanged_since_pass
    /\ next_pos > 1
    /\ Assigned(sorted_shifts[next_pos - 1])

\* C3: when a pass has completed, every shift no employee is eligible for is
\* unassigned, and at most as many shifts are assigned as have an eligible
\* employee.
CompletenessBound ==
    Completed =>
        /\ \A s \in DOMAIN shifts : ~Fillable(s) => ~Assigned(s)
        /\ Cardinality({s \in DOMAIN shifts : Assigned(s)})
               <= Cardinality({s \in DOMAIN shifts : Fillable(s)})

\* C3 witness: a completed pass that filled one shift and left another open
\* although an employee is available at its day and slot (wrong department).
CompletenessWitness ==
    /\ Completed
    /\ \E s, u \in DOMAIN shifts :
          /\ Assigned(s)
          /\ ~Assigned(u)
          /\ \E e \in DOMAIN employees :
                /\ shifts[u].day \in DOMAIN employees[e].availability
                /\ shifts[u].time_slot \in employees[e].availability[shifts[u].day]
                /\ shifts[u].department \notin employees[e].departments

\* C4 (two passes from equal inputs end alike) compares two runs; the pass has
\* no choice in it, so it has no formula here.

\* C5: a pass starts with a zero counter for every employee and every day
\* 0-6; each step of the loop raises exactly the counter of the employee it
\* assigns, on the day of the shift, by one for that assignment, and leaves
\* every other counter (and, when it skips, every counter) as it was.
CounterDiscipline ==
    [][ /\ (pc = "idle" /\ pc' = "assign") =>
              /\ \A e \in DOMAIN employees :
                    employees[e].employee_id \in DOMAIN employee_shifts_per_day'
              /\ \A id \in DOMAIN employee_shifts_per_day' :
                    /\ DOMAIN employee_shifts_per_day'[id] = DayIndices
                    /\ \A day \in DayIndices : employee_shifts_per_day'[id][day] = 0
        /\ (pc = "assign" /\ pc' = "assign") =>
              /\ DOMAIN employee_shifts_per_day' = DOMAIN employee_shifts_per_day
              /\ \A id \in DOMAIN employee_shifts_per_day, day \in DayIndices :
                    employee_shifts_per_day'[id][day] =
                        employee_shifts_per_day[id][day]
                        + Cardinality({s \in DOMAIN shifts :
                              /\ ~Assigned(s)
                              /\ shifts'[s].employee # NoEmployee
                              /\ employees[shifts'[s].employee].employee_id = id
                              /\ shifts[s].day = day})
      ]_vars

\* C5 witness: one employee has been assigned twice on the same day in a pass.
CounterWitness ==
    /\ pc = "assign"
    /\ \E id \in DOMAIN employee_shifts_per_day : employee_shifts_per_day[id][0] = 2
    /\ \E s, u \in DOMAIN shifts :
          s # u /\ Assigned(s) /\ shifts[s].employee = shifts[u].employee

\* The (day, time slot, department) combination of a shift.
Combination(shift) == <<shift.day, shift.time_slot, shift.department>>

\* How often label x occurs in list l.
Occurrences(l, x) == Cardinality({k \in DOMAIN l : l[k] = x})

\* The combinations of the requested days, the configured time slots and the
\* requested departments.
Requested(depts, days) ==
    {<<days[i], time_slots[j], depts[k]>> :
        i \in DOMAIN days, j \in DOMAIN time_slots, k \in DOMAIN depts}

\* C7 as stated: after generate_shifts the shift set holds exactly one
\* unassigned shift for every requested combination and nothing else (so none
\* twice, nothing of the previous set, and nothing at all for an empty list).
OneShiftPerCombination ==
    [][ \A depts \in DepartmentLists, days \in DayLists :
            GenerateShifts(depts, days) =>
                /\ \A s \in DOMAIN shifts' :
                      /\ Combination(shifts'[s]) \in Requested(depts, days)
                      /\ shifts'[s].employee = NoEmployee
                /\ \A c \in Requested(depts, days) :
                      Cardinality({s \in DOMAIN shifts' :
                                      Combination(shifts'[s]) = c}) = 1
      ]_vars

\* C7 amended: after generate_shifts the shift set holds, for every requested
\* combination, as many unassigned shifts as the product of the numbers of
\* times its day, its time slot and its department are listed (one each when
\* no list repeats an entry), and nothing else: nothing of the previous set,
\* and nothing at all for an empty list.
OneShiftPerListedEntry ==
    [][ \A depts \in DepartmentLists, days \in DayLists :
            GenerateShifts(depts, days) =>
                /\ \A s \in DOMAIN shifts' :
                      /\ Combination(shifts'[s]) \in Requested(depts, days)
                      /\ shifts'[s].employee = NoEmployee
                /\ \A c \in Requested(depts, days) :
                      Cardinality({s \in DOMAIN shifts' :
                                      Combination(shifts'[s]) = c})
                          = Occurrences(days, c[1]) * Occurrences(time_slots, c[2])
                            * Occurrences(depts, c[3])
                /\ Len(shifts') = Len(days) * Len(time_slots) * Len(depts)
      ]_vars

\* C7 witness: a freshly generated set of two unassigned shifts of the same
\* combination, which the employee of the builder could take.
GenerateWitness ==
    /\ pc = "idle"
    /\ ~unchanged_since_pass
    /\ Len(shifts) = 2
    /\ Combination(shifts[1]) = Combination(shifts[2])
    /\ \A s \in DOMAIN shifts : ~Assigned(s) /\ Fillable(s)

\* C8: whenever a step assigns a shift, the chosen employee is on the shift's
\* eligible list, no eligible employee has a smaller counter for the shift's
\* day at that moment, and every eligible employee with the same counter
\* stands later in the eligible list and was registered later.
MinimalWorkloadFirst ==
    [][ pc = "assign" =>
          \A s \in DOMAIN shifts :
            (~Assigned(s) /\ shifts'[s].employee # NoEmployee) =>
              LET el == shift_eligible_map[s]
                  chosen == shifts'[s].employee
                  count(e) ==
                      employee_shifts_per_day[employees[e].employee_id][shifts[s].day]
              IN  \E p \in DOMAIN el :
                    /\ el[p] = chosen
                    /\ \A q \in DOMAIN el :
                          /\ count(chosen) <= count(el[q])
                          /\ (q # p /\ count(el[q]) = count(chosen)) =>
                                (p < q /\ chosen < el[q])
      ]_vars

\* C8 witness: in one pass the first employee took a shift, and a shift both
\* employees are eligible for went to the second, whose counter was smaller.
MinimalWorkloadWitness ==
    /\ pc = "assign"
    /\ Len(employees) = 2
    /\ employee_shifts_per_day[employees[1].employee_id][0] = 1
    /\ employee_shifts_per_day[employees[2].employee_id][0] = 1
    /\ \E s \in DOMAIN shifts :
          shifts[s].employee = 2 /\ shift_eligible_map[s] = <<1, 2>>

\* C9: the loop walks the shifts in ascending order of the eligible count
\* taken before the pass, shifts of equal count in their generated order, and
\* a step touches no shift but the one at the loop's position.
ScarcityFirstOrder ==
    [][ pc = "assign" =>
          LET n == Len(shifts)
              count(s) == Cardinality({e \in DOMAIN employees : Meets(e, s)})
          IN  /\ Len(sorted_shifts) = n
              /\ {sorted_shifts[i] : i \in 1 .. n} = 1 .. n
              /\ \A i, j \in 1 .. n :
                    i < j =>
                      \/ count(sorted_shifts[i]) < count(sorted_shifts[j])
                      \/ /\ count(sorted_shifts[i]) = count(sorted_shifts[j])
                         /\ sorted_shifts[i] < sorted_shifts[j]
              /\ \A s \in 1 .. n :
                    shifts'[s] # shifts[s] => s = sorted_shifts[next_pos]
      ]_vars

\* C9 witness: the shift generated second, with fewer eligible employees, has
\* been assigned while the shift generated first still waits.
ScarcityFirstWitness ==
    /\ pc = "assign"
    /\ sorted_shifts = <<2, 1>>
    /\ Len(shift_eligible_map[2]) = 1
    /\ Len(shift_eligible_map[1]) = 2
    /\ Assigned(2)
    /\ ~Assigned(1)

\* C6 as stated: with one employee, in Sales and available on Monday morning
\* only, and two shifts that are both (Monday, Morning, Sales), a completed
\* pass has given the first shift to the employee and left the second open.
DuplicateShiftSecondOpen ==
    ( /\ Completed
      /\ Len(employees) = 1
      /\ employees[1].departments = {"Sales"}
      /\ employees[1].availability = [d \in {0} |-> {"Morning"}]
      /\ Len(shifts) = 2
      /\ \A s \in DOMAIN shifts : Combination(shifts[s]) = <<0, "Morning", "Sales">> )
    => (shifts[1].employee = 1 /\ shifts[2].employee = NoEmployee)

\* C10 as stated: whenever the loop is about to select an employee for a
\* shift, the counter it reads for each eligible employee equals the number of
\* shifts of the builder assigned to that employee on the shift's day.
WorkloadCountsAssignedShifts ==
    ( /\ pc = "assign"
      /\ next_pos <= Len(sorted_shifts)
      /\ ~Assigned(sorted_shifts[next_pos])
      /\ shift_eligible_map[sorted_shifts[next_pos]] # <<>> )
    => LET s == sorted_shifts[next_pos]
           el == shift_eligible_map[s]
       IN  \A p \in DOMAIN el :
             employee_shifts_per_day[employees[el[p]].employee_id][shifts[s].day]
                 = Cardinality({u \in DOMAIN shifts :
                       shifts[u].employee = el[p] /\ shifts[u].day = shifts[s].day})

====
